---- MODULE Spec2Model ----
(***************************************************************************)
(* Metric evaluation engine of src/src/cli.ts: the Bus Factor,             *)
(* Correctness, Ramp-Up and License evaluators as state machines whose     *)
(* steps are the stretches of code between two awaits, NetScore, the       *)
(* runTests driver with its four suites in flight, and calculateBusFactor  *)
(* as an operator.  Numbers the code computes by division are kept as      *)
(* exact fractions <<numerator, denominator>>; 0/0 is JavaScript's NaN.    *)
(* What the remote holds (file tree, repository files, issues) is fixed    *)
(* when a run starts; whether a call succeeds is decided when it is made.  *)
(***************************************************************************)
EXTENDS Integers, Sequences, FiniteSets, TLC

\* ---------------------------------------------------------------- bounds
\* Commits per page in the model; stands for per_page: 100 (cli.ts:213).
PerPage == 2
\* Largest rate-limit quota an evaluation starts with.
MaxQuota == 2
\* Most issues the bug-labelled issue page holds (at most per_page: 100).
MaxIssues == 9
\* Most entries of the repository tree when the quota is limited.
MaxNodes == 2
\* Most entries of the repository tree when the quota is ample.
MaxWalkNodes == 3
\* Most contributors of a commit map handed to calculateBusFactor directly,
\* and the commit count of its heavy contributors.
MaxContributors == 10
MaxCount == 4
\* Most top-level files of a repository that is cloned.
MaxFiles == 2
\* Tests each suite of runTests runs, one after the other (three in the
\* source, each with its own evaluator).
TestsPerSuite == 1
\* Most calls of evaluate on one NetScore object, the constructor's included.
MaxEvaluations == 3

\* ------------------------------------------------------ program constants
\* while (true && page < 10)
MaxPage == 10

\* -------------------------------------------------------------- fractions
Frac(n, d) == <<n, d>>
MinusOne == Frac(-1, 1)
Zero == Frac(0, 1)
One == Frac(1, 1)
\* 0/0 in IEEE arithmetic.
IsNaN(q) == q[1] = 0 /\ q[2] = 0
\* Comparisons of numbers; every comparison with NaN is false.
FEq(a, b) == ~IsNaN(a) /\ ~IsNaN(b) /\ a[1] * b[2] = b[1] * a[2]
FLe(a, b) == ~IsNaN(a) /\ ~IsNaN(b) /\ a[1] * b[2] <= b[1] * a[2]
InUnit(q) == FLe(Zero, q) /\ FLe(q, One)

\* ------------------------------------------------------------ characters
\* Strings are sequences of one-character strings.
Upper == <<"A","B","C","D","E","F","G","H","I","J","K","L","M",
           "N","O","P","Q","R","S","T","U","V","W","X","Y","Z">>
Lower == <<"a","b","c","d","e","f","g","h","i","j","k","l","m",
           "n","o","p","q","r","s","t","u","v","w","x","y","z">>
\* String.prototype.toLowerCase
toLowerCaseChar(c) ==
  IF \E i \in 1..26 : Upper[i] = c
  THEN Lower[CHOOSE i \in 1..26 : Upper[i] = c]
  ELSE c
toLowerCase(s) == [i \in 1..Len(s) |-> toLowerCaseChar(s[i])]
\* The literal lit occurs in s at position p.
MatchAt(s, lit, p) ==
  /\ p >= 1
  /\ p + Len(lit) - 1 <= Len(s)
  /\ \A i \in 1..Len(lit) : s[p + i - 1] = lit[i]
\* String.prototype.includes
includes(s, lit) == \E p \in 1..(Len(s) + 1) : MatchAt(s, lit, p)

\* ----------------------------------------------------------- URL parsing
\* The index after the longest run of non-slash characters starting at p:
\* what a greedy [^/]+ consumes.
RunEnd(s, p) ==
  IF \E j \in p..Len(s) : s[j] = "/"
  THEN CHOOSE j \in p..Len(s) : s[j] = "/" /\ \A i \in p..(j - 1) : s[i] # "/"
  ELSE Len(s) + 1
NoMatch == [ok |-> FALSE, owner |-> <<>>, repo |-> <<>>]
\* s.match(/<lit>([^/]+)\/([^/]+)/): the leftmost place where lit is
\* followed by a non-empty non-slash run, a slash and a second such run.
MatchesFrom(s, lit, p) ==
  LET o == p + Len(lit)
      oe == RunEnd(s, o)
  IN  /\ MatchAt(s, lit, p)
      /\ o <= Len(s)
      /\ oe > o
      /\ oe <= Len(s)
      /\ oe + 1 <= Len(s)
      /\ RunEnd(s, oe + 1) > oe + 1
OwnerRepoMatch(s, lit) ==
  LET starts == {p \in 1..Len(s) : MatchesFrom(s, lit, p)}
  IN  IF starts = {} THEN NoMatch
      ELSE LET p == CHOOSE q \in starts : \A r \in starts : q <= r
               o == p + Len(lit)
               oe == RunEnd(s, o)
           IN  [ok |-> TRUE,
                owner |-> SubSeq(s, o, oe - 1),
                repo |-> SubSeq(s, oe + 1, RunEnd(s, oe + 1) - 1)]
HttpsGithub == <<"h","t","t","p","s",":","/","/","g","i","t","h","u","b",".","c","o","m","/">>
BareGithub == <<"g","i","t","h","u","b",".","c","o","m","/">>
\* BusFactor.getRepoData: /https:\/\/github\.com\/([^/]+)\/([^/]+)/
getRepoData(u) == OwnerRepoMatch(u, HttpsGithub)
\* Correctness.extractRepoInfo: the same pattern; null when it does not match.
extractRepoInfo(u) == OwnerRepoMatch(u, HttpsGithub)
\* RampUp.extractOwnerRepo: /github\.com\/([^\/]+)\/([^\/]+)/
extractOwnerRepo(u) == OwnerRepoMatch(u, BareGithub)

\* The URLs an evaluator is constructed with: https://github.com/o/r,
\* http://github.com/o/r, https://github.com/o and o/r.
Urls == {
  <<"h","t","t","p","s",":","/","/","g","i","t","h","u","b",".","c","o","m","/","o","/","r">>,
  <<"h","t","t","p",":","/","/","g","i","t","h","u","b",".","c","o","m","/","o","/","r">>,
  <<"h","t","t","p","s",":","/","/","g","i","t","h","u","b",".","c","o","m","/","o">>,
  <<"o","/","r">> }
\* ------------------------------------------------------------------ state
Evaluators == {"BusFactor", "Correctness", "RampUp", "License"}
\* The evaluator objects a run may hold: one of each class, and a second
\* License.
Instances == Evaluators \cup {"License2"}
\* commit.author?.login of a commit: a login, or none.
Authors == {"alice", "bob"}
NoAuthor == "none"

VARIABLES
  active,        \* the evaluators constructed for this run
  url,           \* Metrics.url
  remaining,     \* the credential's rate-limit quota at the remote
  pc,            \* per evaluator: where its evaluate() is suspended
  outcome,       \* per evaluator: "pending", "returned" or "threw"
  result,        \* per evaluator: the score evaluate() returned
  observed,      \* per evaluator: rate.remaining it was told, -1 before
  calls,         \* per evaluator: remote calls issued so far, by kind
  page,          \* BusFactor.getCommitData: page
  pageSizes,     \* BusFactor.getCommitData: commits.length of each answer
  commitCounts,  \* BusFactor.getCommitData: commitCounts, insertion order
  issues,        \* the bug-labelled issues at the remote: their states
  found,         \* RampUp.Metrics[key].found
  stack,         \* RampUp.printRepoStructure: items left, per active call
  listed,        \* RampUp.printRepoStructure: the paths getContent was called for
  tree,          \* the repository's file tree at the remote
  failed,        \* per evaluator: a fetch of its evaluation failed
  repo,          \* the repository's top-level files at the remote
  fsys,          \* the local file system: what is at each path
  licenseInfo,   \* per License: licenseInfo of evaluate, null before
  cloneRead,     \* per License: whose clone extractLicenseInfo read
  runPc,         \* runTests: where it is suspended, "idle" when not called
  awaitIdx,      \* runTests: i of its for loop, from 1
  suite,         \* per suite: "none", "running", "fulfilled" or "rejected"
  testNo,        \* per suite: which of its tests is being evaluated
  suiteCount,    \* per suite: testsPassed and testsFailed
  passedTests,   \* runTests: passedTests
  failedTests,   \* runTests: failedTests
  net            \* per NetScore object: its fields

licenseVars == <<repo, fsys, licenseInfo, cloneRead>>
runVars == <<runPc, awaitIdx, suite, testNo, suiteCount, passedTests,
             failedTests>>
vars == <<active, url, remaining, pc, outcome, result, observed, calls, page,
          pageSizes, listed,
          commitCounts, issues, found, stack, tree, failed, licenseVars,
          runVars, net>>

\* ------------------------------------------------------------- Bus Factor
RECURSIVE SumCounts(_)
\* Array.from(commitData.values()).reduce((a, b) => a + b, 0)
SumCounts(s) == IF s = <<>> THEN 0 ELSE s[1][2] + SumCounts(Tail(s))

RECURSIVE InsertDescFlipped(_, _)
InsertDescFlipped(sorted, e) ==
  IF sorted = <<>> THEN <<e>>
  ELSE IF sorted[1][2] <= e[2] THEN <<sorted[1]>> \o InsertDescFlipped(Tail(sorted), e)
  ELSE <<e>> \o sorted
RECURSIVE InsertDesc(_, _)
\* One step of the stable sort by (a, b) => b[1] - a[1]: e goes after every
\* entry whose count is at least its own.
InsertDesc(sorted, e) ==
  IF sorted = <<>> THEN <<e>>
  ELSE IF sorted[1][2] >= e[2] THEN <<sorted[1]>> \o InsertDesc(Tail(sorted), e)
  ELSE <<e>> \o sorted
RECURSIVE SortDesc(_)
\* Array.from(commitData.entries()).sort((a, b) => b[1] - a[1])
SortDesc(s) ==
  IF s = <<>> THEN <<>>
  ELSE InsertDesc(SortDesc(SubSeq(s, 1, Len(s) - 1)), s[Len(s)])

RECURSIVE AccumulateLoopToTotal(_, _, _, _)
AccumulateLoopToTotal(sorted, totalCommits, commitSum, i) ==
  IF commitSum <= totalCommits
  THEN IF i + 1 > Len(sorted)
       THEN [i |-> i, threw |-> TRUE]
       ELSE AccumulateLoopToTotal(sorted, totalCommits,
                                  commitSum + sorted[i + 1][2], i + 1)
  ELSE [i |-> i, threw |-> FALSE]
RECURSIVE AccumulateLoop(_, _, _, _)
\* while (commitSum < totalCommits * 0.5) { commitSum += sorted[i][1]; i++ }
\* Reading sorted[i] at or past the end gives undefined, and undefined[1]
\* throws a TypeError.
AccumulateLoop(sorted, totalCommits, commitSum, i) ==
  IF 2 * commitSum < totalCommits
  THEN IF i + 1 > Len(sorted)
       THEN [i |-> i, threw |-> TRUE]
       ELSE AccumulateLoop(sorted, totalCommits, commitSum + sorted[i + 1][2], i + 1)
  ELSE [i |-> i, threw |-> FALSE]

\* Math.min of its arguments: NaN when one is NaN, else the least.
MathMin(xs) ==
  IF \E j \in 1..Len(xs) : IsNaN(xs[j])
  THEN Frac(0, 0)
  ELSE xs[CHOOSE j \in 1..Len(xs) : \A l \in 1..Len(xs) : FLe(xs[j], xs[l])]

\* BusFactor.calculateBusFactor
calculateBusFactor(commitData) ==
  LET totalCommits == SumCounts(commitData)
      sortedContributors == SortDesc(commitData)
      loop == AccumulateLoop(sortedContributors, totalCommits, 0, 0)
      rawBusFactor == Frac(loop.i, Len(sortedContributors))
      adjustedBusFactor == Frac(rawBusFactor[1] * 2, rawBusFactor[2])
  IN  [threw |-> loop.threw, value |-> MathMin(<<adjustedBusFactor>>)]

RECURSIVE Accumulate(_, _)
\* commits.forEach(commit => { const author = commit.author?.login;
\*   if (author) commitCounts.set(author, (commitCounts.get(author) || 0) + 1) })
Accumulate(counts, commits) ==
  IF commits = <<>> THEN counts
  ELSE LET author == commits[1]
           next ==
             IF author = NoAuthor THEN counts
             ELSE IF \E j \in 1..Len(counts) : counts[j][1] = author
             THEN [j \in 1..Len(counts) |->
                     IF counts[j][1] = author
                     THEN <<author, counts[j][2] + 1>>
                     ELSE counts[j]]
             ELSE Append(counts, <<author, 1>>)
       IN  Accumulate(next, Tail(commits))

\* The pages the remote may answer a listCommits call with.
CommitPages == UNION {[1..n -> Authors \cup {NoAuthor}] : n \in 0..PerPage}

RateLimitedNever(rate) == rate < 0
\* if (rateLimitStatus.remaining === 0)
RateLimited(rate) == rate = 0

ReturnToAll(e, v) ==
  /\ pc' = [pc EXCEPT ![e] = "done"]
  /\ outcome' = [outcome EXCEPT ![e] = "returned"]
  /\ result' = [x \in Instances |-> v]
Return(e, v) ==
  /\ pc' = [pc EXCEPT ![e] = "done"]
  /\ outcome' = [outcome EXCEPT ![e] = "returned"]
  /\ result' = [result EXCEPT ![e] = v]
Throw(e) ==
  /\ pc' = [pc EXCEPT ![e] = "done"]
  /\ outcome' = [outcome EXCEPT ![e] = "threw"]
  /\ UNCHANGED result
Issue(e, kind) == calls' = [calls EXCEPT ![e][kind] = @ + 1]

\* BusFactor.evaluate up to its first decision: the rate-limit query.
BF_RateLimit ==
  /\ pc["BusFactor"] = "start"
  /\ Issue("BusFactor", "rateLimit")
  /\ \E ok \in BOOLEAN :
       IF ~ok
       THEN Throw("BusFactor") /\ UNCHANGED observed
       ELSE /\ observed' = [observed EXCEPT !["BusFactor"] = remaining]
            /\ IF RateLimited(remaining)
               THEN Return("BusFactor", MinusOne)
               ELSE /\ pc' = [pc EXCEPT !["BusFactor"] = "getRepoData"]
                    /\ UNCHANGED <<outcome, result>>
  /\ UNCHANGED <<active, url, remaining, page, pageSizes, commitCounts, issues, found,
                 stack, tree, listed, failed>>
  /\ UNCHANGED <<licenseVars, runVars, net>>

\* await this.getRepoData(this.url), then getCommitData up to its first call.
BF_GetRepoData ==
  /\ pc["BusFactor"] = "getRepoData"
  /\ IF getRepoData(url).ok
     THEN /\ pc' = [pc EXCEPT !["BusFactor"] = "getCommitData"]
          /\ commitCounts' = <<>>
          /\ page' = 1
          /\ pageSizes' = <<>>
          /\ UNCHANGED <<outcome, result>>
     ELSE Throw("BusFactor") /\ UNCHANGED <<commitCounts, page, pageSizes>>
  /\ UNCHANGED <<active, url, remaining, observed, calls, issues, found,
                 stack, tree, listed, failed>>
  /\ UNCHANGED <<licenseVars, runVars, net>>

MorePagesUnbounded(len, next) == ~(len < PerPage)
\* getCommitData's loop goes on after an answer of len commits, with next
\* the page after it: no break (commits.length < 100) and page < 10.
MorePages(len, next) == ~(len < PerPage) /\ next < MaxPage

\* One listCommits call of getCommitData's loop and what follows its answer:
\* on the last page, calculateBusFactor and the return of evaluate.
BF_ListCommits ==
  /\ pc["BusFactor"] = "getCommitData"
  /\ Issue("BusFactor", "fetch")
  /\ \E ok \in BOOLEAN, commits \in CommitPages :
       IF ~ok \/ remaining = 0
       THEN /\ Throw("BusFactor")
            /\ failed' = [failed EXCEPT !["BusFactor"] = TRUE]
            /\ UNCHANGED <<remaining, commitCounts, page, pageSizes>>
       ELSE /\ remaining' = remaining - 1
            /\ commitCounts' = Accumulate(commitCounts, commits)
            /\ pageSizes' = Append(pageSizes, Len(commits))
            /\ UNCHANGED failed
            /\ IF ~MorePages(Len(commits), page + 1)
               THEN LET r == calculateBusFactor(commitCounts')
                    IN  /\ IF r.threw THEN Throw("BusFactor")
                           ELSE Return("BusFactor", r.value)
                        /\ page' = IF Len(commits) < PerPage THEN page ELSE page + 1
               ELSE /\ page' = page + 1
                    /\ UNCHANGED <<pc, outcome, result>>
  /\ UNCHANGED <<active, url, observed, issues, found, stack, tree, listed>>
  /\ UNCHANGED <<licenseVars, runVars, net>>
\* ------------------------------------------------------- string literals
EXAMPLE == <<"e","x","a","m","p","l","e">>
TEST == <<"t","e","s","t">>
README == <<"r","e","a","d","m","e">>
DOC == <<"d","o","c">>
MAKEFILE == <<"m","a","k","e","f","i","l","e">>
N_README_MD == <<"R","E","A","D","M","E",".","m","d">>
N_READMES == <<"r","e","a","d","m","e","s">>
N_MAKEFILE == <<"M","a","k","e","f","i","l","e">>
N_DOCS == <<"d","o","c","s">>
N_TEST_JS == <<"t","e","s","t",".","j","s">>
N_EXAMPLES == <<"E","x","a","m","p","l","e","s">>

\* ------------------------------------------------------------ Correctness
\* 1 - x
OneMinus(x) == Frac(x[2] - x[1], x[2])
openBugIssuesAll(data) == Len(data)
\* data.filter(issue => issue.state === 'open').length
openBugIssues(data) == Cardinality({j \in 1..Len(data) : data[j] = "open"})
calculateScoreNoZeroCheck(data) ==
  OneMinus(Frac(openBugIssues(data), Len(data)))
\* calculateCorrectness once the issues are fetched: 1 when there are none,
\* else 1 - openBugIssues / totalOpenIssues.
calculateScore(data) ==
  LET totalOpenIssues == Len(data)
  IN  IF totalOpenIssues = 0
      THEN One
      ELSE OneMinus(Frac(openBugIssues(data), totalOpenIssues))
CO_CatchRethrow == Throw("Correctness")
\* calculateCorrectness: catch (error) { console.error(...); return -1; }
CO_Catch == Return("Correctness", MinusOne)
\* The pages the remote may hold for the listForRepo call: the state of
\* each bug-labelled issue.
IssuePages == UNION {[1..n -> {"open", "closed"}] : n \in 0..MaxIssues}

\* Correctness.evaluate up to its first decision: the rate-limit query.
CO_RateLimit ==
  /\ pc["Correctness"] = "start"
  /\ Issue("Correctness", "rateLimit")
  /\ \E ok \in BOOLEAN :
       IF ~ok
       THEN Throw("Correctness") /\ UNCHANGED observed
       ELSE /\ observed' = [observed EXCEPT !["Correctness"] = remaining]
            /\ IF RateLimited(remaining)
               THEN Return("Correctness", MinusOne)
               ELSE /\ pc' = [pc EXCEPT !["Correctness"] = "calculateCorrectness"]
                    /\ UNCHANGED <<outcome, result>>
  /\ UNCHANGED <<active, url, remaining, page, pageSizes, commitCounts, issues, found,
                 stack, tree, listed, failed>>
  /\ UNCHANGED <<licenseVars, runVars, net>>

\* calculateCorrectness: fetchIssuesData (extractRepoInfo, listForRepo) inside
\* its try, and the score; whatever fetchIssuesData throws is caught here.
CO_Calculate ==
  /\ pc["Correctness"] = "calculateCorrectness"
  /\ IF ~extractRepoInfo(url).ok
     THEN /\ failed' = [failed EXCEPT !["Correctness"] = TRUE]
          /\ CO_Catch
          /\ UNCHANGED <<remaining, calls>>
     ELSE /\ Issue("Correctness", "fetch")
          /\ \E ok \in BOOLEAN :
               IF ~ok \/ remaining = 0
               THEN /\ failed' = [failed EXCEPT !["Correctness"] = TRUE]
                    /\ CO_Catch
                    /\ UNCHANGED remaining
               ELSE LET data == issues
                    IN  /\ remaining' = remaining - 1
                        /\ UNCHANGED failed
                        /\ Return("Correctness", calculateScore(data))
  /\ UNCHANGED <<active, url, observed, page, pageSizes, commitCounts, issues, found,
                 stack, tree, listed>>
  /\ UNCHANGED <<licenseVars, runVars, net>>

\* ---------------------------------------------------------------- Ramp-Up
\* RampUp.Metrics, in Object.entries order.
MetricKeys == <<"example", "test", "readme", "doc", "makefile">>
Metrics == [
  example  |-> [name |-> EXAMPLE, fileType |-> "either"],
  test     |-> [name |-> TEST, fileType |-> "either"],
  readme   |-> [name |-> README, fileType |-> "file"],
  doc      |-> [name |-> DOC, fileType |-> "either"],
  makefile |-> [name |-> MAKEFILE, fileType |-> "file"] ]
KeySet == {MetricKeys[j] : j \in 1..Len(MetricKeys)}

\* The kinds of entry a listing may hold: item.type and item.name.
EntryKinds == {
  [type |-> "file", name |-> N_README_MD],
  [type |-> "dir",  name |-> N_READMES],
  [type |-> "file", name |-> N_MAKEFILE],
  [type |-> "dir",  name |-> N_DOCS],
  [type |-> "file", name |-> N_TEST_JS],
  [type |-> "dir",  name |-> N_EXAMPLES] }
Root == 0
RECURSIVE Trees(_)
\* The file trees of exactly n entries: entry j is [parent, type, name], its
\* parent the root or an earlier entry of type dir; j stands for item.path.
Trees(n) ==
  IF n = 0 THEN {<<>>}
  ELSE UNION {
         {Append(t, [parent |-> p, type |-> k.type, name |-> k.name]) :
            p \in {Root} \cup {j \in 1..(n - 1) : t[j].type = "dir"},
            k \in EntryKinds} :
         t \in Trees(n - 1)}
RECURSIVE Children(_, _, _)
\* What getContent answers for a path: its immediate children, in order.
Children(t, path, from) ==
  IF from > Len(t) THEN <<>>
  ELSE IF t[from].parent = path
       THEN <<[id |-> from, type |-> t[from].type, name |-> t[from].name]>>
            \o Children(t, path, from + 1)
       ELSE Children(t, path, from + 1)

MatchesCaseSensitive(item, metric) ==
  /\ (item.type = metric.fileType \/ metric.fileType = "either")
  /\ includes(item.name, metric.name)
\* (item.type === metric.fileType || metric.fileType === 'either')
\*   && item.name.toLowerCase().includes(metric.name)
Matches(item, metric) ==
  /\ (item.type = metric.fileType \/ metric.fileType = "either")
  /\ includes(toLowerCase(item.name), metric.name)
MarkFoundOverwrite(f, item) ==
  [k \in KeySet |-> Matches(item, Metrics[k])]
\* The inner for loop over Object.entries(this.Metrics) for one item.
MarkFound(f, item) ==
  [k \in KeySet |-> IF Matches(item, Metrics[k]) THEN TRUE ELSE f[k]]
\* totalFound / totalMetrics
Score(f) == Frac(Cardinality({k \in KeySet : f[k]}), Len(MetricKeys))

RU_FinishWalk ==
  /\ Return("RampUp", Score(found))
  /\ stack' = <<>>
\* The end of one printRepoStructure call: the score is computed and
\* returned; the outermost call's value is what evaluate returns.
RU_Finish ==
  IF Len(stack) = 1
  THEN /\ Return("RampUp", Score(found))
       /\ stack' = <<>>
  ELSE /\ stack' = SubSeq(stack, 1, Len(stack) - 1)
       /\ pc' = [pc EXCEPT !["RampUp"] = "loop"]
       /\ UNCHANGED <<outcome, result>>

\* printRepoStructure(url, path) up to the answer of its getContent call;
\* a throw of extractOwnerRepo or of the call is caught and ends this call.
RU_GetContent ==
  /\ pc["RampUp"] \in {"start", "call"}
  /\ IF ~extractOwnerRepo(url).ok
     THEN /\ failed' = [failed EXCEPT !["RampUp"] = TRUE]
          /\ RU_Finish
          /\ UNCHANGED <<remaining, calls, listed>>
     ELSE /\ Issue("RampUp", "fetch")
          /\ listed' = Append(listed, stack[Len(stack)].path)
          /\ \E ok \in BOOLEAN :
               IF ~ok \/ remaining = 0
               THEN /\ failed' = [failed EXCEPT !["RampUp"] = TRUE]
                    /\ RU_Finish
                    /\ UNCHANGED remaining
               ELSE LET items == Children(tree, stack[Len(stack)].path, 1)
                    IN  /\ remaining' = remaining - 1
                        /\ stack' = [stack EXCEPT ![Len(stack)].items = items]
                        /\ pc' = [pc EXCEPT !["RampUp"] = "loop"]
                        /\ UNCHANGED <<failed, outcome, result>>
  /\ UNCHANGED <<active, url, observed, page, pageSizes, commitCounts, issues, found, tree>>
  /\ UNCHANGED <<licenseVars, runVars, net>>

RecursesAlways(item) == TRUE
\* if (item.type === 'dir'): the entries printRepoStructure recurses into.
Recurses(item) == item.type = "dir"

\* One iteration of for (const item of response.data): the checklist, then
\* the recursive call when the item is a directory.
RU_Item ==
  /\ pc["RampUp"] = "loop"
  /\ stack[Len(stack)].items # <<>>
  /\ LET item == Head(stack[Len(stack)].items)
         rest == [stack EXCEPT ![Len(stack)].items = Tail(@)]
     IN  /\ found' = MarkFound(found, item)
         /\ IF Recurses(item)
            THEN /\ stack' = Append(rest, [path |-> item.id, items |-> <<>>])
                 /\ pc' = [pc EXCEPT !["RampUp"] = "call"]
            ELSE /\ stack' = rest
                 /\ UNCHANGED pc
  /\ UNCHANGED <<active, url, remaining, outcome, result, observed, calls,
                 page, pageSizes, commitCounts, issues, tree, listed, failed>>
  /\ UNCHANGED <<licenseVars, runVars, net>>

\* The for loop is over: this call returns its score.
RU_Return ==
  /\ pc["RampUp"] = "loop"
  /\ stack[Len(stack)].items = <<>>
  /\ RU_Finish
  /\ UNCHANGED <<active, url, remaining, observed, calls, page, pageSizes, commitCounts,
                 issues, found, tree, listed, failed>>
  /\ UNCHANGED <<licenseVars, runVars, net>>

\* ---------------------------------------------------------------- License
SP == " "
NL == "\n"
\* \s and, for the dot of a regular expression, the line terminators.
IsSpace(c) == c \in {SP, NL}
LGPL_2_1 == <<"L","G","P","L","-","2",".","1">>
LGPL_2_1_ONLY == LGPL_2_1 \o <<"-","o","n","l","y">>
LGPL_2_1_OR_LATER == LGPL_2_1 \o <<"-","o","r","-","l","a","t","e","r">>
GPL_2_0 == <<"G","P","L","-","2",".","0">>
GPL_2_0_ONLY == GPL_2_0 \o <<"-","o","n","l","y">>
GPL_2_0_OR_LATER == GPL_2_0 \o <<"-","o","r","-","l","a","t","e","r">>
MIT == <<"M","I","T">>
BSD_2_CLAUSE == <<"B","S","D","-","2","-","C","l","a","u","s","e">>
BSD_3_CLAUSE == <<"B","S","D","-","3","-","C","l","a","u","s","e">>
APACHE_2_0 == <<"A","p","a","c","h","e","-","2",".","0">>
MPL_1_1 == <<"M","P","L","-","1",".","1">>
\* const compatibleLicenses = [...]
compatibleLicenses == <<LGPL_2_1, LGPL_2_1_ONLY, LGPL_2_1_OR_LATER, GPL_2_0,
                        GPL_2_0_ONLY, GPL_2_0_OR_LATER, MIT, BSD_2_CLAUSE,
                        BSD_3_CLAUSE, APACHE_2_0, MPL_1_1>>

\* One character of a pattern built by new RegExp(source, 'i') against one
\* character of the text: the dot is not escaped in the source, so it
\* stands for any character but a line terminator; every other character
\* of the identifiers stands for itself, in either case.
PatternChar(pc1, c) ==
  IF pc1 = "." THEN c # NL
  ELSE toLowerCaseChar(c) = toLowerCaseChar(pc1)
\* The alternative pat of the expression matches s at position p.
PatternAt(s, pat, p) ==
  /\ p >= 1
  /\ p + Len(pat) - 1 <= Len(s)
  /\ \A i \in 1..Len(pat) : PatternChar(pat[i], s[p + i - 1])
\* new RegExp(compatibleLicenses.join('|'), 'i').test(licenseText)
licenseRegexTest(licenseText) ==
  \E j \in 1..Len(compatibleLicenses) :
    \E p \in 1..Len(licenseText) :
      PatternAt(licenseText, compatibleLicenses[j], p)
\* License.checkLicenseCompatibility
checkLicenseCompatibility(licenseText) ==
  IF licenseRegexTest(licenseText) THEN One ELSE Zero

README_DOT == README \o <<".">>
README_MD == README_DOT \o <<"m","d">>
README_TXT == README_DOT \o <<"t","x","t">>
\* file.match(/^readme\.(md|txt)?$/i)
IsReadmeFile(name) == toLowerCase(name) \in {README_DOT, README_MD, README_TXT}
LICENSE_S == <<"l","i","c","e","n","s","e">>
LICENCE_C == <<"l","i","c","e","n","c","e">>
\* file.match(/^licen[sc]e(\..*)?$/i)
IsLicenseFile(name) ==
  LET n == toLowerCase(name)
  IN  /\ (MatchAt(n, LICENSE_S, 1) \/ MatchAt(n, LICENCE_C, 1))
      /\ (Len(n) = 7 \/ (n[8] = "." /\ \A i \in 9..Len(n) : n[i] # NL))
HASHES == <<"#","#">>
LEGAL == <<"l","e","g","a","l">>
\* The index after the run of white space starting at p: what \s* takes
\* when a letter has to follow.
SpaceEnd(s, p) ==
  IF \E j \in p..Len(s) : ~IsSpace(s[j])
  THEN CHOOSE j \in p..Len(s) : ~IsSpace(s[j]) /\ \A i \in p..(j - 1) : IsSpace(s[i])
  ELSE Len(s) + 1
\* /##\s*(Licence|Legal)(\s|\S)*/i matches s from position p on.
SectionAt(s, p) ==
  LET w == SpaceEnd(s, p + 2)
  IN  /\ MatchAt(s, HASHES, p)
      /\ (MatchAt(toLowerCase(s), LICENCE_C, w) \/ MatchAt(toLowerCase(s), LEGAL, w))
\* null where a string is expected: no string of one-character strings.
Null == <<"null">>
\* readmeContent.match(/##\s*(Licence|Legal)(\s|\S)*/i): the text from the
\* leftmost match to the end of the content, or null.
licenseSection(readmeContent) ==
  LET starts == {p \in 1..Len(readmeContent) : SectionAt(readmeContent, p)}
  IN  IF starts = {} THEN Null
      ELSE SubSeq(readmeContent,
                  CHOOSE q \in starts : \A r \in starts : q <= r,
                  Len(readmeContent))
\* A string or null taken as a condition: null and '' are falsy.
Truthy(s) == s # Null /\ s # <<>>
\* fs.readdirSync(cloneDir).filter(...)[0]: the first file of a listing
\* whose name passes the filter, or none.
FirstReadme(files) ==
  LET hits == {j \in 1..Len(files) : IsReadmeFile(files[j].name)}
  IN  IF hits = {} THEN 0 ELSE CHOOSE j \in hits : \A l \in hits : j <= l
FirstLicense(files) ==
  LET hits == {j \in 1..Len(files) : IsLicenseFile(files[j].name)}
  IN  IF hits = {} THEN 0 ELSE CHOOSE j \in hits : \A l \in hits : j <= l
\* License.extractLicenseInfo on a directory holding files.
extractLicenseInfo(files) ==
  LET r == FirstReadme(files)
      l == FirstLicense(files)
      section == IF r = 0 THEN Null ELSE licenseSection(files[r].content)
      fromReadme == IF section # Null THEN section ELSE Null
  IN  IF l = 0 THEN fromReadme
      ELSE IF Truthy(fromReadme)
           THEN fromReadme \o <<NL>> \o files[l].content
           ELSE files[l].content

\* The contents a file of the repository may have: "MIT License",
\* "GPL-3.0", "GPL-2-0", "## Licence MIT", "## License MIT", "Docs" and
\* the empty file.
T_MIT_LICENSE == <<"M","I","T"," ","L","i","c","e","n","s","e">>
T_GPL_3_0 == <<"G","P","L","-","3",".","0">>
T_GPL_2_DASH_0 == <<"G","P","L","-","2","-","0">>
T_LICENCE_MIT == <<"#","#"," ","L","i","c","e","n","c","e","\n","M","I","T">>
T_LICENSE_MIT == <<"#","#"," ","L","i","c","e","n","s","e","\n","M","I","T">>
T_DOCS == <<"D","o","c","s">>
N_LICENSE == <<"L","I","C","E","N","S","E">>
N_LICENSE_TXT == <<"l","i","c","e","n","s","e",".","t","x","t">>
\* The files a repository may hold at its top level: name and content.
FileKinds == {
  [name |-> N_README_MD, content |-> T_LICENCE_MIT],
  [name |-> N_README_MD, content |-> T_LICENSE_MIT],
  [name |-> N_README_MD, content |-> T_DOCS],
  [name |-> N_LICENSE, content |-> T_MIT_LICENSE],
  [name |-> N_LICENSE, content |-> T_GPL_3_0],
  [name |-> N_LICENSE, content |-> T_GPL_2_DASH_0],
  [name |-> N_LICENSE_TXT, content |-> <<>>],
  [name |-> N_MAKEFILE, content |-> T_MIT_LICENSE] }
RECURSIVE Repos(_)
\* The repositories of exactly n top-level files, in readdir order, no two
\* of one name.
Repos(n) ==
  IF n = 0 THEN {<<>>}
  ELSE UNION {
         {Append(r, k) : k \in {f \in FileKinds :
                                  \A j \in 1..(n - 1) : r[j].name # f.name}} :
         r \in Repos(n - 1)}

\* const cloneDir = path.join('/tmp', 'repo-clone')
cloneDir == "/tmp/repo-clone"
Paths == {cloneDir}
Absent == [exists |-> FALSE, by |-> "none", files |-> <<>>]
rmSyncKeep(f, dir) == f
\* fs.rmSync(cloneDir, { recursive: true, force: true })
rmSync(f, dir) == [f EXCEPT ![dir] = Absent]
\* What a finished git.clone leaves at dir: the files of the repository,
\* written by the evaluation e.
Cloned(f, dir, e, files) ==
  [f EXCEPT ![dir] = [exists |-> TRUE, by |-> e, files |-> files]]
\* The remote serves a repository for the URL: http or https, github.com,
\* an owner and a name.
Clonable(u) == extractOwnerRepo(u).ok /\ u[1] = "h"
LicenseInstances == {"License", "License2"}

licenseOnErrorZero == Zero
\* catch (error) { ...; this.license = -1; }
licenseOnError == MinusOne

\* catch and finally of License.evaluate, and its return: the score is -1
\* and the clone directory is removed.
L_Catch(e) ==
  /\ failed' = [failed EXCEPT ![e] = TRUE]
  /\ fsys' = rmSync(fsys, cloneDir)
  /\ Return(e, licenseOnError)

\* License.evaluate up to the end of await this.cloneRepository(cloneDir).
L_Clone(e) ==
  /\ pc[e] = "start"
  /\ \E ok \in BOOLEAN :
       IF ok /\ Clonable(url)
       THEN /\ fsys' = Cloned(fsys, cloneDir, e, repo)
            /\ pc' = [pc EXCEPT ![e] = "cloned"]
            /\ UNCHANGED <<outcome, result, failed>>
       ELSE L_Catch(e)
  /\ UNCHANGED <<active, url, remaining, observed, calls, page, pageSizes, commitCounts,
                 issues, found, stack, tree, listed, repo, licenseInfo, cloneRead>>
  /\ UNCHANGED <<runVars, net>>

\* The body of extractLicenseInfo(cloneDir), up to the await of its value:
\* readdirSync throws when the directory is not there, and reading a file
\* may fail.
L_Extract(e) ==
  /\ pc[e] = "cloned"
  /\ \E ok \in BOOLEAN :
       IF ok /\ fsys[cloneDir].exists
       THEN /\ licenseInfo' = [licenseInfo EXCEPT ![e] =
                                 extractLicenseInfo(fsys[cloneDir].files)]
            /\ cloneRead' = [cloneRead EXCEPT ![e] = fsys[cloneDir].by]
            /\ pc' = [pc EXCEPT ![e] = "extracted"]
            /\ UNCHANGED <<outcome, result, failed, fsys>>
       ELSE L_Catch(e) /\ UNCHANGED <<licenseInfo, cloneRead>>
  /\ UNCHANGED <<active, url, remaining, observed, calls, page, pageSizes, commitCounts,
                 issues, found, stack, tree, listed, repo>>
  /\ UNCHANGED <<runVars, net>>

\* if (licenseInfo) ... else this.license = -1; finally; return this.license
L_Score(e) ==
  /\ pc[e] = "extracted"
  /\ IF Truthy(licenseInfo[e])
     THEN Return(e, checkLicenseCompatibility(licenseInfo[e]))
     ELSE Return(e, MinusOne)
  /\ fsys' = rmSync(fsys, cloneDir)
  /\ UNCHANGED <<active, url, remaining, observed, calls, page, pageSizes, commitCounts,
                 issues, found, stack, tree, listed, failed, repo, licenseInfo,
                 cloneRead>>
  /\ UNCHANGED <<runVars, net>>

NoCalls == [rateLimit |-> 0, fetch |-> 0]
\* --------------------------------------------------------------- NetScore
\* weights: Array<number> = [19.84, 7.47, 30.69, 42.0], in hundredths.
weights == <<Frac(1984, 100), Frac(747, 100), Frac(3069, 100), Frac(4200, 100)>>
NetInstances == {"NetScore", "NetScore2"}
\* A NetScore object as its field initialisers leave it, before the
\* constructor's call of evaluate: every component -1, license false.
\* evaluations counts the calls of evaluate on the object, and inputs holds
\* the component fields as they were at the latest call.
NetDefaults ==
  [busFactor |-> MinusOne, correctness |-> MinusOne,
   maintainability |-> MinusOne, rampUpTime |-> MinusOne, license |-> FALSE]
NetFields(u) ==
  [url |-> u, fields |-> NetDefaults, inputs |-> NetDefaults,
   netScore |-> MinusOne, evaluations |-> 0]
NetScoreEvaluateByHistory(this) ==
  IF this.evaluations = 0 THEN MinusOne ELSE Zero
\* NetScore.evaluate: return -1
NetScoreEvaluate(this) == MinusOne
\* One call of evaluate on the object n.
Evaluated(n) ==
  [n EXCEPT !.netScore = NetScoreEvaluate(n),
            !.inputs = n.fields,
            !.evaluations = n.evaluations + 1]
\* new NetScore(u): this.netScore = this.evaluate()
NetConstructed(u) == Evaluated(NetFields(u))
\* The values a caller may assign to the public component fields.
ScoreValues == {MinusOne, Frac(1, 2), One}

\* evaluate() is called again on a NetScore object.
NS_Evaluate(i) ==
  /\ net[i].evaluations > 0
  /\ net[i].evaluations < MaxEvaluations
  /\ net' = [net EXCEPT ![i] = Evaluated(net[i])]
  /\ UNCHANGED <<active, url, remaining, pc, outcome, result, observed, calls,
                 page, pageSizes, commitCounts, issues, found, stack, tree, listed, failed,
                 licenseVars, runVars>>

\* --------------------------------------------------------------- runTests
\* results.push(BusFactorTest()); results.push(CorrectnessTest());
\* results.push(LicenseTest()); results.push(RampUpTest());
SuiteOrder == <<"BusFactor", "Correctness", "License", "RampUp">>
\* The expected values of the suites' tests, in order.  0.933333333 and
\* 0.90909091 are written 14/15 and 10/11: they differ from them by less
\* than 1e-8, and no score of the model is that near the threshold.
Expected == [
  BusFactor   |-> <<Frac(3, 10), Frac(3, 10), Frac(7, 10)>>,
  Correctness |-> <<Frac(14, 15), Frac(10, 11), Frac(1, 1)>>,
  License     |-> <<Frac(1, 1), Frac(1, 1), Frac(1, 1)>>,
  RampUp      |-> <<Frac(1, 2), Frac(1, 2), Frac(1, 2)>> ]
Abs(n) == IF n < 0 THEN -n ELSE n
\* ASSERT_EQ: Math.abs(expected - actual) < 0.01; false for NaN.
ASSERT_EQ(actual, expected) ==
  /\ ~IsNaN(actual)
  /\ Abs(expected[1] * actual[2] - actual[1] * expected[2]) * 100
       < expected[2] * actual[2]
NoCount == [passed |-> 0, failed |-> 0]
\* x ? testsPassed++ : testsFailed++
Counted(c, ok) ==
  IF ok THEN [c EXCEPT !.passed = @ + 1] ELSE [c EXCEPT !.failed = @ + 1]

\* runTests up to the first await of its for loop: the rate-limit query,
\* then the four suites are called, each running up to its first await
\* with a new evaluator whose evaluate() has been called.
RT_Start ==
  /\ runPc = "start"
  /\ \E ok \in BOOLEAN :
       IF ~ok
       THEN /\ runPc' = "rejected"
            /\ UNCHANGED <<pc, suite, testNo>>
       ELSE /\ runPc' = "awaiting"
            /\ pc' = [e \in Instances |-> IF e \in Evaluators THEN "start" ELSE pc[e]]
            /\ suite' = [e \in Evaluators |-> "running"]
            /\ testNo' = [e \in Evaluators |-> 1]
  /\ UNCHANGED <<active, url, remaining, outcome, result, observed, calls,
                 page, pageSizes, commitCounts, issues, found, stack, tree, listed, failed,
                 licenseVars, awaitIdx, suiteCount, passedTests, failedTests,
                 net>>

\* A suite after let result = await x.evaluate(): a rejection of evaluate
\* rejects the suite; else the assertions are counted and the next test
\* constructs its evaluator and calls evaluate(), or the suite returns its
\* counts.
T_Continue(e) ==
  /\ e \in Evaluators
  /\ suite[e] = "running"
  /\ pc[e] = "done"
  /\ IF outcome[e] = "threw"
     THEN /\ suite' = [suite EXCEPT ![e] = "rejected"]
          /\ UNCHANGED <<pc, outcome, result, observed, calls, failed, found,
                         stack, listed, licenseInfo, cloneRead, testNo,
                         suiteCount>>
     ELSE /\ \E fast \in (IF e = "BusFactor" THEN BOOLEAN ELSE {TRUE}) :
               LET eq == Counted(suiteCount[e],
                                 ASSERT_EQ(result[e], Expected[e][testNo[e]]))
               IN  suiteCount' = [suiteCount EXCEPT ![e] =
                     IF e = "BusFactor" THEN Counted(eq, fast) ELSE eq]
          /\ IF testNo[e] < TestsPerSuite
             THEN /\ testNo' = [testNo EXCEPT ![e] = @ + 1]
                  /\ pc' = [pc EXCEPT ![e] = "start"]
                  /\ outcome' = [outcome EXCEPT ![e] = "pending"]
                  /\ result' = [result EXCEPT ![e] = MinusOne]
                  /\ observed' = [observed EXCEPT ![e] = -1]
                  /\ calls' = [calls EXCEPT ![e] = NoCalls]
                  /\ failed' = [failed EXCEPT ![e] = FALSE]
                  /\ found' = IF e = "RampUp" THEN [k \in KeySet |-> FALSE] ELSE found
                  /\ stack' = IF e = "RampUp"
                              THEN <<[path |-> Root, items |-> <<>>]>> ELSE stack
                  /\ listed' = IF e = "RampUp" THEN <<>> ELSE listed
                  /\ licenseInfo' = IF e = "License"
                                    THEN [licenseInfo EXCEPT ![e] = Null]
                                    ELSE licenseInfo
                  /\ cloneRead' = IF e = "License"
                                  THEN [cloneRead EXCEPT ![e] = "none"]
                                  ELSE cloneRead
                  /\ UNCHANGED suite
             ELSE /\ suite' = [suite EXCEPT ![e] = "fulfilled"]
                  /\ UNCHANGED <<pc, outcome, result, observed, calls, failed,
                                 found, stack, listed, licenseInfo, cloneRead,
                                 testNo>>
  /\ UNCHANGED <<active, url, remaining, page, pageSizes, commitCounts, issues, tree,
                 repo, fsys, runPc, awaitIdx, passedTests, failedTests, net>>

\* let result = await results[i] of runTests' for loop and what follows: the
\* counts are added; after the last suite the totals are printed.  A
\* rejected suite rejects runTests there.
RT_Await ==
  /\ runPc = "awaiting"
  /\ LET s == SuiteOrder[awaitIdx]
     IN  /\ suite[s] \in {"fulfilled", "rejected"}
         /\ IF suite[s] = "rejected"
            THEN /\ runPc' = "rejected"
                 /\ UNCHANGED <<awaitIdx, passedTests, failedTests>>
            ELSE /\ passedTests' = passedTests + suiteCount[s].passed
                 /\ failedTests' = failedTests + suiteCount[s].failed
                 /\ IF awaitIdx < Len(SuiteOrder)
                    THEN awaitIdx' = awaitIdx + 1 /\ UNCHANGED runPc
                    ELSE runPc' = "reported" /\ UNCHANGED awaitIdx
  /\ UNCHANGED <<active, url, remaining, pc, outcome, result, observed, calls,
                 page, pageSizes, commitCounts, issues, found, stack, tree, listed, failed,
                 licenseVars, suite, testNo, suiteCount, net>>

\* ---------------------------------------------------------- specification
\* The state after new <metric>(u): nothing evaluated yet.
Constructed(metric, u, quota, t, r, bugs) ==
  /\ active = {metric}
  /\ url = u
  /\ remaining = quota
  /\ tree = t
  /\ pc = [e \in Instances |-> IF e = metric THEN "start" ELSE "idle"]
  /\ outcome = [e \in Instances |-> "pending"]
  /\ result = [e \in Instances |-> MinusOne]
  /\ observed = [e \in Instances |-> -1]
  /\ calls = [e \in Instances |-> NoCalls]
  /\ page = 1
  /\ pageSizes = <<>>
  /\ commitCounts = <<>>
  /\ issues = bugs
  /\ found = [k \in KeySet |-> FALSE]
  /\ stack = <<[path |-> Root, items |-> <<>>]>>
  /\ listed = <<>>
  /\ failed = [e \in Instances |-> FALSE]
  /\ repo = r
  /\ fsys = [p \in Paths |-> Absent]
  /\ licenseInfo = [e \in LicenseInstances |-> Null]
  /\ cloneRead = [e \in LicenseInstances |-> "none"]
  /\ runPc = "idle"
  /\ awaitIdx = 1
  /\ suite = [e \in Evaluators |-> "none"]
  /\ testNo = [e \in Evaluators |-> 1]
  /\ suiteCount = [e \in Evaluators |-> NoCount]
  /\ passedTests = 0
  /\ failedTests = 0
  /\ net = [i \in NetInstances |-> NetFields(url)]

\* One evaluator is constructed for a URL and its evaluate() is called, with
\* any quota left at the remote.
Init ==
  \E metric \in Evaluators :
    \E t \in (IF metric = "RampUp" THEN UNION {Trees(n) : n \in 0..MaxNodes} ELSE {<<>>}) :
      \E r \in (IF metric = "License" THEN UNION {Repos(n) : n \in 0..MaxFiles} ELSE {<<>>}) :
        \E bugs \in (IF metric = "Correctness" THEN IssuePages ELSE {<<>>}) :
          \E u \in Urls, quota \in 0..MaxQuota :
            Constructed(metric, u, quota, t, r, bugs)

Next ==
  \/ BF_RateLimit
  \/ BF_GetRepoData
  \/ BF_ListCommits
  \/ CO_RateLimit
  \/ CO_Calculate
  \/ RU_GetContent
  \/ RU_Item
  \/ RU_Return
  \/ \E e \in LicenseInstances : L_Clone(e)
  \/ \E e \in LicenseInstances : L_Extract(e)
  \/ \E e \in LicenseInstances : L_Score(e)

Spec == Init /\ [][Next]_vars

\* RampUp.evaluate() on the larger trees, for a URL that resolves and with
\* quota for every listing of the walk; a listing may still fail.
InitWalk ==
  \E t \in UNION {Trees(n) : n \in 0..MaxWalkNodes} :
    \E u \in {v \in Urls : extractOwnerRepo(v).ok} :
      Constructed("RampUp", u, MaxWalkNodes + 1, t, <<>>, <<>>)

NextWalk ==
  \/ RU_GetContent
  \/ RU_Item
  \/ RU_Return

SpecWalk == InitWalk /\ [][NextWalk]_vars

\* What the remote holds for the repositories of the test suites: a tree of
\* one directory, a LICENSE file and two bug-labelled issues.
RunTree == <<[parent |-> Root, type |-> "dir", name |-> N_DOCS]>>
RunRepo == <<[name |-> N_LICENSE, content |-> T_MIT_LICENSE]>>
RunIssues == <<"closed", "open">>
\* runTests() is called: no suite has started, any quota is left.
InitRun ==
  /\ active = Evaluators
  /\ url = CHOOSE u \in Urls : getRepoData(u).ok
  /\ remaining \in 0..MaxQuota
  /\ tree = RunTree
  /\ pc = [e \in Instances |-> "idle"]
  /\ outcome = [e \in Instances |-> "pending"]
  /\ result = [e \in Instances |-> MinusOne]
  /\ observed = [e \in Instances |-> -1]
  /\ calls = [e \in Instances |-> NoCalls]
  /\ page = 1
  /\ pageSizes = <<>>
  /\ commitCounts = <<>>
  /\ issues = RunIssues
  /\ found = [k \in KeySet |-> FALSE]
  /\ stack = <<[path |-> Root, items |-> <<>>]>>
  /\ listed = <<>>
  /\ failed = [e \in Instances |-> FALSE]
  /\ repo = RunRepo
  /\ fsys = [p \in Paths |-> Absent]
  /\ licenseInfo = [e \in LicenseInstances |-> Null]
  /\ cloneRead = [e \in LicenseInstances |-> "none"]
  /\ runPc = "start"
  /\ awaitIdx = 1
  /\ suite = [e \in Evaluators |-> "none"]
  /\ testNo = [e \in Evaluators |-> 1]
  /\ suiteCount = [e \in Evaluators |-> NoCount]
  /\ passedTests = 0
  /\ failedTests = 0
  /\ net = [i \in NetInstances |-> NetFields(url)]

NextRun ==
  \/ RT_Start
  \/ BF_RateLimit
  \/ BF_GetRepoData
  \/ BF_ListCommits
  \/ CO_RateLimit
  \/ CO_Calculate
  \/ RU_GetContent
  \/ RU_Item
  \/ RU_Return
  \/ L_Clone("License")
  \/ L_Extract("License")
  \/ L_Score("License")
  \/ \E e \in Evaluators : T_Continue(e)
  \/ RT_Await

SpecRun == InitRun /\ [][NextRun]_vars

\* The commit history the remote holds for the repository of the suites'
\* first tests, oldest page last: the login of each commit's author.
RunCommits == <<"alice", "bob", "alice">>
\* What repos.listCommits({per_page, page}) answers from a history.
CommitPage(history, p) ==
  SubSeq(history, (p - 1) * PerPage + 1,
         IF p * PerPage < Len(history) THEN p * PerPage ELSE Len(history))
\* BF_ListCommits at a remote whose history does not change: an answered
\* call gives the page asked for.
BF_ListCommitsServed ==
  /\ BF_ListCommits
  /\ pageSizes' # pageSizes
       => LET commits == CommitPage(RunCommits, page)
          IN  /\ pageSizes' = Append(pageSizes, Len(commits))
              /\ commitCounts' = Accumulate(commitCounts, commits)
\* The four evaluators of the suites' first tests are in flight for one
\* repository whose remote data does not change, with some quota left.
InitTogether ==
  /\ active = Evaluators
  /\ url = CHOOSE u \in Urls : getRepoData(u).ok
  /\ remaining \in 1..(MaxQuota + 3)
  /\ tree = RunTree
  /\ pc = [e \in Instances |-> IF e \in Evaluators THEN "start" ELSE "idle"]
  /\ outcome = [e \in Instances |-> "pending"]
  /\ result = [e \in Instances |-> MinusOne]
  /\ observed = [e \in Instances |-> -1]
  /\ calls = [e \in Instances |-> NoCalls]
  /\ page = 1
  /\ pageSizes = <<>>
  /\ commitCounts = <<>>
  /\ issues = RunIssues
  /\ found = [k \in KeySet |-> FALSE]
  /\ stack = <<[path |-> Root, items |-> <<>>]>>
  /\ listed = <<>>
  /\ failed = [e \in Instances |-> FALSE]
  /\ repo = RunRepo
  /\ fsys = [p \in Paths |-> Absent]
  /\ licenseInfo = [e \in LicenseInstances |-> Null]
  /\ cloneRead = [e \in LicenseInstances |-> "none"]
  /\ runPc = "idle"
  /\ awaitIdx = 1
  /\ suite = [e \in Evaluators |-> "none"]
  /\ testNo = [e \in Evaluators |-> 1]
  /\ suiteCount = [e \in Evaluators |-> NoCount]
  /\ passedTests = 0
  /\ failedTests = 0
  /\ net = [i \in NetInstances |-> NetFields(url)]

NextTogether ==
  \/ BF_RateLimit
  \/ BF_GetRepoData
  \/ BF_ListCommitsServed
  \/ CO_RateLimit
  \/ CO_Calculate
  \/ RU_GetContent
  \/ RU_Item
  \/ RU_Return
  \/ L_Clone("License")
  \/ L_Extract("License")
  \/ L_Score("License")

SpecTogether == InitTogether /\ [][NextTogether]_vars

\* Two License objects of one process whose evaluate() calls overlap, for a
\* URL the remote serves a repository for.
InitClones ==
  /\ active = LicenseInstances
  /\ url \in {u \in Urls : Clonable(u)}
  /\ remaining = MaxQuota
  /\ tree = <<>>
  /\ pc = [e \in Instances |-> IF e \in LicenseInstances THEN "start" ELSE "idle"]
  /\ outcome = [e \in Instances |-> "pending"]
  /\ result = [e \in Instances |-> MinusOne]
  /\ observed = [e \in Instances |-> -1]
  /\ calls = [e \in Instances |-> NoCalls]
  /\ page = 1
  /\ pageSizes = <<>>
  /\ commitCounts = <<>>
  /\ issues = <<>>
  /\ found = [k \in KeySet |-> FALSE]
  /\ stack = <<[path |-> Root, items |-> <<>>]>>
  /\ listed = <<>>
  /\ failed = [e \in Instances |-> FALSE]
  /\ repo \in UNION {Repos(n) : n \in 0..MaxFiles}
  /\ fsys = [p \in Paths |-> Absent]
  /\ licenseInfo = [e \in LicenseInstances |-> Null]
  /\ cloneRead = [e \in LicenseInstances |-> "none"]
  /\ runPc = "idle"
  /\ awaitIdx = 1
  /\ suite = [e \in Evaluators |-> "none"]
  /\ testNo = [e \in Evaluators |-> 1]
  /\ suiteCount = [e \in Evaluators |-> NoCount]
  /\ passedTests = 0
  /\ failedTests = 0
  /\ net = [i \in NetInstances |-> NetFields(url)]

NextClones ==
  \/ \E e \in LicenseInstances : L_Clone(e)
  \/ \E e \in LicenseInstances : L_Extract(e)
  \/ \E e \in LicenseInstances : L_Score(e)

SpecClones == InitClones /\ [][NextClones]_vars

\* Two NetScore objects are constructed, for any URLs, a caller assigns
\* their public component fields, and evaluate() is called on them again.
InitNet ==
  /\ active = {}
  /\ url = CHOOSE u \in Urls : getRepoData(u).ok
  /\ remaining = MaxQuota
  /\ tree = <<>>
  /\ pc = [e \in Instances |-> "idle"]
  /\ outcome = [e \in Instances |-> "pending"]
  /\ result = [e \in Instances |-> MinusOne]
  /\ observed = [e \in Instances |-> -1]
  /\ calls = [e \in Instances |-> NoCalls]
  /\ page = 1
  /\ pageSizes = <<>>
  /\ commitCounts = <<>>
  /\ issues = <<>>
  /\ found = [k \in KeySet |-> FALSE]
  /\ stack = <<[path |-> Root, items |-> <<>>]>>
  /\ listed = <<>>
  /\ failed = [e \in Instances |-> FALSE]
  /\ repo = <<>>
  /\ fsys = [p \in Paths |-> Absent]
  /\ licenseInfo = [e \in LicenseInstances |-> Null]
  /\ cloneRead = [e \in LicenseInstances |-> "none"]
  /\ runPc = "idle"
  /\ awaitIdx = 1
  /\ suite = [e \in Evaluators |-> "none"]
  /\ testNo = [e \in Evaluators |-> 1]
  /\ suiteCount = [e \in Evaluators |-> NoCount]
  /\ passedTests = 0
  /\ failedTests = 0
  /\ \E us \in [NetInstances -> {u \in Urls : u[1] # "h" \/ getRepoData(u).ok}] :
       \E fs \in [NetInstances ->
                    [busFactor : ScoreValues, correctness : ScoreValues,
                     maintainability : {MinusOne}, rampUpTime : ScoreValues,
                     license : BOOLEAN]] :
         net = [i \in NetInstances |->
                  [NetConstructed(us[i]) EXCEPT !.fields = fs[i]]]

NextNet == \E i \in NetInstances : NS_Evaluate(i)

SpecNet == InitNet /\ [][NextNet]_vars

\* calculateBusFactor applied to a commit map as getCommitData may return
\* it: contributors in any order, each with one commit or with MaxCount.
CommitMaps ==
  UNION {{[j \in 1..n |-> <<ToString(j), c[j]>>] : c \in [1..n -> {1, MaxCount}]} :
           n \in 0..MaxContributors}

InitCalc ==
  /\ active = {"BusFactor"}
  /\ url = CHOOSE u \in Urls : getRepoData(u).ok
  /\ remaining = MaxQuota
  /\ tree = <<>>
  /\ pc = [e \in Instances |-> IF e = "BusFactor" THEN "calculateBusFactor" ELSE "idle"]
  /\ outcome = [e \in Instances |-> "pending"]
  /\ result = [e \in Instances |-> MinusOne]
  /\ observed = [e \in Instances |-> IF e = "BusFactor" THEN MaxQuota ELSE -1]
  /\ calls = [e \in Instances |-> NoCalls]
  /\ page = 1
  /\ pageSizes = <<>>
  /\ commitCounts \in CommitMaps
  /\ issues = <<>>
  /\ found = [k \in KeySet |-> FALSE]
  /\ stack = <<[path |-> Root, items |-> <<>>]>>
  /\ listed = <<>>
  /\ failed = [e \in Instances |-> FALSE]
  /\ repo = <<>>
  /\ fsys = [p \in Paths |-> Absent]
  /\ licenseInfo = [e \in LicenseInstances |-> Null]
  /\ cloneRead = [e \in LicenseInstances |-> "none"]
  /\ runPc = "idle"
  /\ awaitIdx = 1
  /\ suite = [e \in Evaluators |-> "none"]
  /\ testNo = [e \in Evaluators |-> 1]
  /\ suiteCount = [e \in Evaluators |-> NoCount]
  /\ passedTests = 0
  /\ failedTests = 0
  /\ net = [i \in NetInstances |-> NetFields(url)]

\* this.busFactor = this.calculateBusFactor(commitData); return this.busFactor
BF_Calculate ==
  /\ pc["BusFactor"] = "calculateBusFactor"
  /\ LET r == calculateBusFactor(commitCounts)
     IN  IF r.threw THEN Throw("BusFactor") ELSE Return("BusFactor", r.value)
  /\ UNCHANGED <<active, url, remaining, observed, calls, page, pageSizes, commitCounts,
                 issues, found, stack, tree, listed, failed>>
  /\ UNCHANGED <<licenseVars, runVars, net>>

NextCalc == BF_Calculate

SpecCalc == InitCalc /\ [][NextCalc]_vars

\* BusFactor.evaluate() for a URL that resolves, with quota for every page
\* getCommitData may ask for; a call may still fail.
InitPages ==
  \E u \in {v \in Urls : getRepoData(v).ok} :
    Constructed("BusFactor", u, MaxPage, <<>>, <<>>, <<>>)

NextPages ==
  \/ BF_RateLimit
  \/ BF_GetRepoData
  \/ BF_ListCommits

SpecPages == InitPages /\ [][NextPages]_vars

\* ----------------------------------------------------------------- claims
\* BusFactor.evaluate got through the rate-limit check and the URL, and
\* getCommitData read the whole history without a failed call.
BF_HistoryFetched ==
  /\ pc["BusFactor"] = "done"
  /\ observed["BusFactor"] > 0
  /\ getRepoData(url).ok
  /\ ~failed["BusFactor"]

\* C1: when the fetched commit history attributes no commit to anyone (the
\* author-to-count map is empty), BusFactor.evaluate returns exactly -1,
\* never NaN.
C1_ZeroCommitsReturnMinusOne ==
  (BF_HistoryFetched /\ commitCounts = <<>>)
    => (outcome["BusFactor"] = "returned" /\ result["BusFactor"] = MinusOne)

\* C2: when the history attributes at least one commit, the Bus Factor score
\* lies in [0, 1]: the doubled raw factor is capped at 1.
C2_BusFactorInUnitInterval ==
  (BF_HistoryFetched /\ commitCounts # <<>>)
    => (outcome["BusFactor"] = "returned" /\ InUnit(result["BusFactor"]))

\* The commit counts of a map, the number of contributors holding a count,
\* and the sum of the j largest counts, found by counting and not by sorting.
CountValues(cd) == {cd[j][2] : j \in 1..Len(cd)}
Holders(cd, v) == Cardinality({j \in 1..Len(cd) : cd[j][2] = v})
RECURSIVE TopSum(_, _, _)
TopSum(cd, j, vals) ==
  IF j = 0 \/ vals = {} THEN 0
  ELSE LET v == CHOOSE x \in vals : \A y \in vals : y <= x
           m == IF j < Holders(cd, v) THEN j ELSE Holders(cd, v)
       IN  m * v + TopSum(cd, j - m, vals \ {v})
\* The smallest number of top contributors holding at least half the commits.
SmallestK(cd) ==
  LET T == TopSum(cd, Len(cd), CountValues(cd))
  IN  CHOOSE k \in 0..Len(cd) :
        /\ 2 * TopSum(cd, k, CountValues(cd)) >= T
        /\ \A l \in 0..(k - 1) : 2 * TopSum(cd, l, CountValues(cd)) < T

\* C3: for a non-empty commit map with n contributors, calculateBusFactor
\* returns 2*k/n whenever 2*k/n <= 1, k being the smallest number of
\* contributors, taken by descending commit count, that hold at least half
\* of all commits.
C3_BusFactorIsTwiceKOverN ==
  (pc["BusFactor"] = "done" /\ commitCounts # <<>>)
    => /\ outcome["BusFactor"] = "returned"
       /\ 2 * SmallestK(commitCounts) <= Len(commitCounts)
            => FEq(result["BusFactor"],
                   Frac(2 * SmallestK(commitCounts), Len(commitCounts)))
\* Ten contributors, the top two of which are needed for half: 0.4.
C3_Witness ==
  /\ pc["BusFactor"] = "done"
  /\ Len(commitCounts) = 10
  /\ SmallestK(commitCounts) = 2
  /\ FEq(result["BusFactor"], Frac(4, 10))

\* C4: when the rate-limit query at the start of BusFactor.evaluate or
\* Correctness.evaluate reports remaining = 0, that evaluate has returned -1
\* and has issued no listCommits / listForRepo call.
C4_ZeroQuotaShortCircuits ==
  \A e \in {"BusFactor", "Correctness"} :
    observed[e] = 0
      => /\ pc[e] = "done"
         /\ outcome[e] = "returned"
         /\ result[e] = MinusOne
         /\ calls[e].fetch = 0
C4_Witness ==
  /\ observed["BusFactor"] = 0
  /\ pc["BusFactor"] = "done"
  /\ calls["BusFactor"].rateLimit = 1

\* C5: RampUp.evaluate queries the rate limit before any remote work, and
\* with remaining = 0 it returns -1 without a further remote call: a step of
\* a Ramp-Up evaluation that starts with no quota left issues no getContent
\* call, and no getContent call is ever issued before a rate-limit query.
C5_RampUpChecksRateLimit ==
  [][/\ calls'["RampUp"].fetch > 0 => calls'["RampUp"].rateLimit > 0
     /\ (pc["RampUp"] = "start" /\ remaining = 0)
          => /\ calls'["RampUp"].fetch = 0
             /\ pc'["RampUp"] = "done" => result'["RampUp"] = MinusOne]_vars

\* Correctness.evaluate got through the rate-limit check and its issue
\* listing succeeded.
CO_IssuesFetched ==
  /\ pc["Correctness"] = "done"
  /\ observed["Correctness"] > 0
  /\ calls["Correctness"].fetch = 1
  /\ ~failed["Correctness"]

\* C6: when the bug-labelled issue listing succeeds and holds no issue,
\* Correctness.evaluate returns exactly 1.
C6_NoIssuesScoresOne ==
  (CO_IssuesFetched /\ Len(issues) = 0)
    => (outcome["Correctness"] = "returned" /\ result["Correctness"] = One)
C6_Witness == CO_IssuesFetched /\ Len(issues) = 0

\* The issues of a page whose state is open, counted one by one.
RECURSIVE OpenCount(_)
OpenCount(data) ==
  IF data = <<>> THEN 0
  ELSE (IF Head(data) = "open" THEN 1 ELSE 0) + OpenCount(Tail(data))

\* C7: when the fetched page holds total > 0 issues, open of them open,
\* Correctness returns 1 - open/total, which lies in [0, 1].
C7_ScoreIsOneMinusOpenShare ==
  (CO_IssuesFetched /\ Len(issues) > 0)
    => /\ outcome["Correctness"] = "returned"
       /\ FEq(result["Correctness"],
              Frac(Len(issues) - OpenCount(issues), Len(issues)))
       /\ InUnit(result["Correctness"])
\* Nine issues, one of them open: 8/9.
C7_Witness ==
  /\ CO_IssuesFetched
  /\ Len(issues) = 9
  /\ OpenCount(issues) = 1
  /\ FEq(result["Correctness"], Frac(8, 9))

\* C8: when the issue fetch fails (a remote error, or a URL that does not
\* resolve to owner/name), Correctness.evaluate returns -1 as a value and no
\* exception escapes it.
C8_FetchFailureReturnsMinusOne ==
  failed["Correctness"]
    => /\ pc["Correctness"] = "done"
       /\ outcome["Correctness"] = "returned"
       /\ result["Correctness"] = MinusOne
\* The remote call itself failed, on a URL that resolves.
C8_Witness ==
  /\ failed["Correctness"]
  /\ extractRepoInfo(url).ok
  /\ calls["Correctness"].fetch = 1
  /\ remaining > 0

\* C9: at every point of the Ramp-Up walk the checklist's score is in
\* [0, 1], and no step lowers it: a term marked found stays found.
C9_RampUpScoreMonotone ==
  /\ [](InUnit(Score(found)))
  /\ [][/\ \A k \in KeySet : found[k] => found'[k]
        /\ FLe(Score(found), Score(found'))]_vars
\* Mid-walk, two terms found and an entry still to process.
C9_Witness ==
  /\ pc["RampUp"] = "loop"
  /\ stack[Len(stack)].items # <<>>
  /\ Cardinality({k \in KeySet : found[k]}) = 2

\* Which checklist term each kind of entry carries: the name holds the term
\* in some letter case and the entry's type is one the term allows.  The
\* directory "readmes" carries none: readme is for files only.
TermOfEntry == {
  <<"file", N_README_MD, "readme">>,
  <<"file", N_MAKEFILE,  "makefile">>,
  <<"dir",  N_DOCS,      "doc">>,
  <<"file", N_TEST_JS,   "test">>,
  <<"dir",  N_EXAMPLES,  "example">> }
TermsInTree(t) ==
  {k \in KeySet : \E j \in 1..Len(t) : <<t[j].type, t[j].name, k>> \in TermOfEntry}

ContainsIdentifier(text) ==
  \E j \in 1..Len(compatibleLicenses) :
    includes(toLowerCase(text), toLowerCase(compatibleLicenses[j]))
\* License.evaluate of e cloned, extracted a non-empty text and returned.
L_TextExtracted(e) ==
  /\ pc[e] = "done"
  /\ outcome[e] = "returned"
  /\ ~failed[e]
  /\ Truthy(licenseInfo[e])

\* C11: given a non-empty extracted license text, License.evaluate returns 1
\* if and only if the text contains an allow-listed identifier as a
\* case-insensitive literal substring, and 0 otherwise.
C11_LicenseOneIffIdentifier ==
  L_TextExtracted("License")
    => result["License"] =
         IF ContainsIdentifier(licenseInfo["License"]) THEN One ELSE Zero
\* C11, its example: a LICENSE file holding "MIT License" gives 1.
C11_MitLicenseGivesOne ==
  (L_TextExtracted("License") /\ licenseInfo["License"] = T_MIT_LICENSE)
    => result["License"] = One
C11_MitWitness ==
  /\ L_TextExtracted("License")
  /\ licenseInfo["License"] = T_MIT_LICENSE

\* The repository holds no license-relevant text: no LICENSE file, and no
\* README with a license section.
NoLicenseText(files) ==
  /\ FirstLicense(files) = 0
  /\ \/ FirstReadme(files) = 0
     \/ licenseSection(files[FirstReadme(files)].content) = Null

\* C12: License.evaluate returns -1 whenever the clone fails, the extraction
\* raises or no license-relevant text is found, and returns 0 or 1 only when
\* some license text was extracted.
C12_LicenseMinusOneWithoutText ==
  pc["License"] = "done"
    => /\ outcome["License"] = "returned"
       /\ result["License"] \in {MinusOne, Zero, One}
       /\ (failed["License"] \/ NoLicenseText(repo))
            => result["License"] = MinusOne
       /\ result["License"] \in {Zero, One}
            => (~failed["License"] /\ Truthy(licenseInfo["License"]))
\* The clone held files, none of them license-relevant: -1.
C12_Witness ==
  /\ pc["License"] = "done"
  /\ ~failed["License"]
  /\ cloneRead["License"] = "License"
  /\ repo # <<>>
  /\ NoLicenseText(repo)
  /\ result["License"] = MinusOne
\* The clone or the extraction failed for a URL that names a repository: -1.
C12_WitnessRaised ==
  /\ pc["License"] = "done"
  /\ failed["License"]
  /\ Clonable(url)
  /\ result["License"] = MinusOne

\* C13: on every exit path of License.evaluate the clone directory has been
\* removed when evaluate returns.
C13_CloneDirRemovedOnExit ==
  pc["License"] = "done" => ~fsys[cloneDir].exists
\* evaluate cloned, read its clone, scored it 1 and returned.
C13_Witness ==
  /\ pc["License"] = "done"
  /\ cloneRead["License"] = "License"
  /\ result["License"] = One
  /\ ~fsys[cloneDir].exists

\* The URL is not of the form https://github.com/<owner>/<name>.
UrlMalformed == ~getRepoData(url).ok
\* evaluate of e is over and got as far as resolving the URL: Bus Factor and
\* Correctness resolve it after a rate-limit check that let them pass.
ReachedUrl(e) ==
  /\ pc[e] = "done"
  /\ e \in {"BusFactor", "Correctness"} => observed[e] > 0
\* evaluate of e returned the score -1.
ReturnedMinusOne(e) == outcome[e] = "returned" /\ result[e] = MinusOne
UrlFailureReported(e) == (UrlMalformed /\ ReachedUrl(e)) => ReturnedMinusOne(e)

\* C14: when the repository URL does not match https://<host>/<owner>/<name>,
\* every evaluator (Bus Factor, Correctness, Ramp-Up, License) returns the
\* score -1: no exception escapes evaluate and no score in [0, 1] is returned.
C14_MalformedUrlReturnsMinusOne ==
  \A e \in Evaluators : UrlFailureReported(e)

\* A listing call of e's evaluation failed: listCommits, listForRepo or
\* getContent, issued for a URL that e resolved.
ListingFailed(e) ==
  /\ pc[e] = "done"
  /\ failed[e]
  /\ calls[e].fetch > 0
  /\ e = "BusFactor" => getRepoData(url).ok
  /\ e = "Correctness" => extractRepoInfo(url).ok
  /\ e = "RampUp" => extractOwnerRepo(url).ok
FetchFailureReported(e) == ListingFailed(e) => ReturnedMinusOne(e)

\* C15: when a commit, issue or tree listing fails during an evaluation, the
\* evaluator that issued it catches the failure and its evaluate returns -1:
\* the failure does not leave evaluate as a rejection and no score in [0, 1]
\* is returned.
C15_FailedListingReturnsMinusOne ==
  \A e \in {"BusFactor", "Correctness", "RampUp"} : FetchFailureReported(e)

\* C16: in a run that launches the four suites together, a failure of one
\* metric's evaluation (a -1 result or a raised error) does not keep the
\* others from being counted: once the suites are launched runTests is not
\* rejected, so that it goes on to report the totals.
C16_FailureDoesNotAbortRun ==
  runPc = "rejected" => \A e \in Evaluators : suite[e] = "none"

\* The evaluator e issues a listing call in this step.
Fetches(e) == calls'[e].fetch > calls[e].fetch
\* C19: with the evaluators running concurrently against one quota, no
\* evaluator issues a quota-consuming fetch (commit page, issue page, tree
\* listing) in a state where the remaining quota is 0.
C19_NoFetchAtZeroQuota ==
  [][\A e \in Evaluators : Fetches(e) => remaining > 0]_vars

\* C19, the race alone: Correctness issues its one listing call right after
\* a rate-limit check that told it remaining > 0; alone it finds that quota
\* still there, next to other evaluators it may not.
C19_CheckedFetchFindsQuota ==
  [][Fetches("Correctness") => remaining > 0]_vars

\* C20: two License evaluations running concurrently in one process never
\* share a clone directory: neither reads files written by the other's
\* clone, and neither finds its directory removed or replaced by the other
\* between its own clone and its own extraction.
C20_CloneDirNotShared ==
  \A e \in LicenseInstances :
    /\ cloneRead[e] \in {"none", e}
    /\ pc[e] = "cloned" => (fsys[cloneDir].exists /\ fsys[cloneDir].by = e)

\* A boolean where a number is expected: true is 1, false is 0.
NumberOf(b) == IF b THEN One ELSE Zero
\* The weighted sum of the four component scores, the weights taken in the
\* order bus factor, correctness, ramp-up, license.
WeightedSum(f) ==
  LET v == <<f.busFactor, f.correctness, f.rampUpTime, NumberOf(f.license)>>
      L == v[1][2] * v[2][2] * v[3][2] * v[4][2]
      Term(k) == weights[k][1] * v[k][1] * (L \div v[k][2])
  IN  Frac(Term(1) + Term(2) + Term(3) + Term(4), weights[1][2] * L)
Clamp(x) ==
  IF FLe(x, MinusOne) THEN MinusOne ELSE IF FLe(One, x) THEN One ELSE x

\* C17: NetScore.evaluate returns the fixed-weight linear combination of the
\* bus factor, correctness, ramp-up and license scores, clamped to [-1, 1].
C17_NetScoreIsClampedWeightedSum ==
  \A i \in NetInstances :
    net[i].evaluations > 0
      => FEq(net[i].netScore, Clamp(WeightedSum(net[i].inputs)))

\* C18: the net score is a function of the four component scores alone: two
\* evaluations with the same four inputs return the same value, whatever
\* the URL of the object and however often it was evaluated before.
C18_NetScoreDeterministic ==
  \A i, j \in NetInstances :
    ( /\ net[i].evaluations > 0
      /\ net[j].evaluations > 0
      /\ net[i].inputs = net[j].inputs )
      => net[i].netScore = net[j].netScore
\* Two objects of different URLs, one evaluated once and one twice, both
\* with the components 1, 1/2, 1 and license true at their latest call.
C18_Witness ==
  /\ net["NetScore"].url # net["NetScore2"].url
  /\ net["NetScore"].evaluations = 2
  /\ net["NetScore2"].evaluations > 2
  /\ net["NetScore"].inputs = net["NetScore2"].inputs
  /\ net["NetScore"].inputs.busFactor = One
  /\ net["NetScore"].inputs.correctness = Frac(1, 2)
  /\ net["NetScore"].inputs.license

\* Every answer but the last one held a full page.
AllButLastFull(sizes) == \A j \in 1..(Len(sizes) - 1) : sizes[j] = PerPage
\* What holds of getCommitData's requests at every moment: at most
\* MaxPage - 1 of them; while the loop runs, the next request is for the
\* page after the answers so far, all of them full; when it has ended
\* without a failed call, it ended on the first short page or on page
\* MaxPage - 1.
PagingBounded ==
  /\ Len(pageSizes) <= MaxPage - 1
  /\ AllButLastFull(pageSizes)
  /\ pc["BusFactor"] = "getCommitData"
       => /\ page = Len(pageSizes) + 1
          /\ page < MaxPage
          /\ \A j \in 1..Len(pageSizes) : pageSizes[j] = PerPage
  /\ (pc["BusFactor"] = "done" /\ ~failed["BusFactor"] /\ pageSizes # <<>>)
       => \/ pageSizes[Len(pageSizes)] < PerPage
          \/ Len(pageSizes) = MaxPage - 1

\* C21: getCommitData terminates for every repository: it requests pages 1,
\* 2, ... in increasing order, stops after the first page of fewer than
\* PerPage commits, and requests at most MaxPage - 1 pages even when every
\* page is full; each answer ends the loop or moves it to the next page.
C21_PagingTerminates ==
  /\ []PagingBounded
  /\ [][pc["BusFactor"] = "getCommitData"
          => (pc'["BusFactor"] = "done" \/ page' = page + 1)]_vars
\* Nine full pages were answered and the loop ended there.
C21_Witness ==
  /\ pc["BusFactor"] = "done"
  /\ ~failed["BusFactor"]
  /\ Len(pageSizes) = MaxPage - 1
  /\ \A j \in 1..Len(pageSizes) : pageSizes[j] = PerPage

\* The directories of a tree, and the paths listed so far.
Dirs(t) == {j \in 1..Len(t) : t[j].type = "dir"}
ListedPaths == {listed[j] : j \in 1..Len(listed)}
\* The entries still ahead of the walk: those whose parent has not been
\* listed yet and those waiting in the for loop of some call.
Ahead ==
  {j \in 1..Len(tree) : tree[j].parent \notin ListedPaths}
    \cup UNION {{stack[f].items[k].id : k \in 1..Len(stack[f].items)} :
                  f \in 1..Len(stack)}
\* The work left: it is a natural number and every step of the walk makes
\* it smaller, so the walk cannot go on for ever.
WorkLeft ==
  3 * Cardinality(Ahead)
    + Cardinality(({Root} \cup Dirs(tree)) \ ListedPaths)
    + Len(stack)
    + (IF pc["RampUp"] \in {"start", "call"} THEN 1 ELSE 0)
\* No listing was issued for a file, none twice, and a walk that ended with
\* no failed listing has listed the root and every directory.
ListedDirsOnce ==
  /\ \A j \in 1..Len(listed) : listed[j] \in {Root} \cup Dirs(tree)
  /\ \A j, k \in 1..Len(listed) : listed[j] = listed[k] => j = k
  /\ (pc["RampUp"] = "done" /\ ~failed["RampUp"])
       => ListedPaths = {Root} \cup Dirs(tree)

\* C22: for every finite repository tree the Ramp-Up walk terminates, lists
\* the root and every directory reachable from it exactly once, and never
\* issues a listing for an entry of type file.
C22_WalkListsEachDirOnce ==
  /\ []ListedDirsOnce
  /\ [][WorkLeft' < WorkLeft]_vars
\* A walk over a directory inside a directory next to a file has ended with
\* three listings.
C22_Witness ==
  /\ pc["RampUp"] = "done"
  /\ ~failed["RampUp"]
  /\ Len(listed) = 3
  /\ \E j \in Dirs(tree) : tree[j].parent # Root
  /\ \E j \in 1..Len(tree) : tree[j].type = "file"

\* C23: URL resolution behaves identically in every evaluator: for the URL
\* of an evaluation, BusFactor.getRepoData, Correctness.extractRepoInfo and
\* RampUp.extractOwnerRepo all fail or all succeed with the same owner and
\* name.
C23_ResolversAgree ==
  (\E e \in {"BusFactor", "Correctness", "RampUp"} : pc[e] = "done")
    => /\ getRepoData(url) = extractRepoInfo(url)
       /\ getRepoData(url) = extractOwnerRepo(url)
\* C23, the two resolvers that share one pattern.
C23_HttpsResolversAgree ==
  (\E e \in {"BusFactor", "Correctness"} : pc[e] = "done")
    => getRepoData(url) = extractRepoInfo(url)

\* The README of the clone root has a "## License" heading over an
\* allow-listed identifier, and files holds no LICENSE file.
ReadmeLicenseHeadingOnly(files) ==
  /\ FirstLicense(files) = 0
  /\ FirstReadme(files) # 0
  /\ files[FirstReadme(files)].content = T_LICENSE_MIT

\* C24: a repository with no LICENSE file whose README has a "## License"
\* section naming an allow-listed identifier scores 1: the README text from
\* the heading on is part of the text tested against the allow-list.
C24_ReadmeLicenseSectionGivesOne ==
  ( /\ pc["License"] = "done"
    /\ outcome["License"] = "returned"
    /\ ~failed["License"]
    /\ ReadmeLicenseHeadingOnly(repo) )
    => /\ result["License"] = One
       /\ licenseInfo["License"] = T_LICENSE_MIT
\* C24, the heading the pattern does spell: a README with a "## Licence"
\* section over MIT and no LICENSE file scores 1.
C24_ReadmeLicenceSectionGivesOne ==
  ( /\ pc["License"] = "done"
    /\ outcome["License"] = "returned"
    /\ ~failed["License"]
    /\ FirstLicense(repo) = 0
    /\ FirstReadme(repo) # 0
    /\ repo[FirstReadme(repo)].content = T_LICENCE_MIT )
    => /\ result["License"] = One
       /\ licenseInfo["License"] = T_LICENCE_MIT

\* The score evaluator e gives when it runs alone for the repository and
\* every remote call of its is answered: a function of the remote data only.
RECURSIVE AllCommits(_, _)
AllCommits(counts, p) ==
  LET commits == CommitPage(RunCommits, p)
      next == Accumulate(counts, commits)
  IN  IF MorePages(Len(commits), p + 1) THEN AllCommits(next, p + 1) ELSE next
AloneScore(e) ==
  CASE e = "BusFactor" -> calculateBusFactor(AllCommits(<<>>, 1)).value
    [] e = "Correctness" -> calculateScore(issues)
    [] e = "RampUp" -> Frac(Cardinality(TermsInTree(tree)), 5)
    [] e = "License" ->
         IF Truthy(extractLicenseInfo(repo))
         THEN checkLicenseCompatibility(extractLicenseInfo(repo))
         ELSE MinusOne
\* Evaluator e has returned, every remote call of its was answered and the
\* quota it saw was not zero.
Answered(e) ==
  /\ pc[e] = "done"
  /\ ~failed[e]
  /\ outcome[e] = "returned"
  /\ observed[e] # 0
\* The in-memory state of each evaluator object: its fields and the locals
\* of its evaluate().
Memory(e) ==
  CASE e = "BusFactor" ->
         <<pc[e], outcome[e], result[e], observed[e], page, commitCounts>>
    [] e = "Correctness" -> <<pc[e], outcome[e], result[e], observed[e]>>
    [] e = "RampUp" -> <<pc[e], outcome[e], result[e], found, stack>>
    [] e = "License" -> <<pc[e], outcome[e], result[e], licenseInfo[e]>>
SameAsAlone ==
  \A e \in Evaluators : Answered(e) => result[e] = AloneScore(e)
\* C25: the four evaluators run for one repository concurrently, under any
\* interleaving at remote-call boundaries with unchanged remote data and
\* non-zero quota, give each the score it gives alone, and no step of one
\* evaluator writes the in-memory state of another.
C25_ConcurrentSameAsAlone ==
  /\ []SameAsAlone
  /\ [][\A e, o \in Evaluators :
          (e # o /\ Memory(e)' # Memory(e)) => Memory(o)' = Memory(o)]_vars
\* All four have returned their scores with every call answered, Bus Factor
\* and Correctness with different ones.
C25_Witness ==
  /\ \A e \in Evaluators : Answered(e)
  /\ result["BusFactor"] # result["Correctness"]
  /\ result["RampUp"] # MinusOne
  /\ result["License"] = One

\* C26: for every non-empty commit-count map in which every count is >= 1,
\* the accumulation loop of calculateBusFactor stops with 1 <= k <= n and
\* never reads an index at or past the end of the sorted contributor list:
\* calculateBusFactor returns, and what it returns is 2k/n for such a k.
C26_LoopStaysInBounds ==
  ( /\ pc["BusFactor"] = "done"
    /\ commitCounts # <<>>
    /\ \A j \in 1..Len(commitCounts) : commitCounts[j][2] >= 1 )
    => /\ outcome["BusFactor"] = "returned"
       /\ \E k \in 1..Len(commitCounts) :
            FEq(result["BusFactor"], Frac(2 * k, Len(commitCounts)))
\* A single contributor: the loop stops at k = n = 1, the last index.
C26_Witness ==
  /\ pc["BusFactor"] = "done"
  /\ Len(commitCounts) = 1
  /\ commitCounts[1][2] >= 1
  /\ FEq(result["BusFactor"], Frac(2, 1))
\* C26, away from the edge: three contributors of one commit each, k = 2.
C26_WitnessThree ==
  /\ pc["BusFactor"] = "done"
  /\ Len(commitCounts) = 3
  /\ \A j \in 1..3 : commitCounts[j][2] = 1
  /\ FEq(result["BusFactor"], Frac(4, 3))

\* The checklist terms entry j of the tree carries.
TermsOf(j) ==
  {k \in KeySet : <<tree[j].type, tree[j].name, k>> \in TermOfEntry}
\* Entry j lies next to a listed subdirectory (or is one): the listing of
\* its parent was answered, so j is outside every failed subdirectory.
BesideListedDir(j) ==
  \E d \in Dirs(tree) : tree[d].parent = tree[j].parent /\ d \in ListedPaths
\* This step is a listing of a subdirectory that fails: the call is issued
\* and not answered, in a printRepoStructure call below the outermost.
SubListingFails ==
  /\ Len(stack) > 1
  /\ listed' # listed
  /\ remaining' = remaining
\* C27: a failed listing of one subdirectory is contained to it: the walk
\* goes on with the remaining entries of the parent, every term marked found
\* stays found, and the terms of the entries outside the failed subdirectory
\* are counted in the score evaluate returns.
C27_FailedListingContained ==
  /\ [](pc["RampUp"] = "done"
          => /\ outcome["RampUp"] = "returned"
             /\ result["RampUp"] = Score(found)
             /\ \A j \in 1..Len(tree) :
                  BesideListedDir(j) => \A k \in TermsOf(j) : found[k])
  /\ [][SubListingFails
          => /\ found' = found
             /\ stack' = SubSeq(stack, 1, Len(stack) - 1)
             /\ pc'["RampUp"] = "loop"
             /\ outcome' = outcome]_vars
\* The listing of a subdirectory of the root failed (a term carried only
\* inside it is missing) and a later entry of the root is counted.
C27_Witness ==
  /\ pc["RampUp"] = "done"
  /\ failed["RampUp"]
  /\ \E d \in Dirs(tree), c, x \in 1..Len(tree) :
       /\ tree[d].parent = Root
       /\ d \in ListedPaths
       /\ tree[c].parent = d
       /\ \E k \in TermsOf(c) : ~found[k]
       /\ tree[x].parent = Root
       /\ x > d
       /\ \E k \in TermsOf(x) : found[k]
  /\ result["RampUp"] # Zero
====
